---- MODULE Spec2Model ----
(***************************************************************************)
(* State machine of the App component of MemeGenius AI (src/App.tsx): the  *)
(* React state of the component, the adapter calls and image loads in      *)
(* flight, and one action per handler step (the synchronous part of a      *)
(* handler up to its await, and each continuation after an await).         *)
(***************************************************************************)
EXTENDS Integers, Sequences, FiniteSets, TLC

\* ---------------------------------------------------------------- bounds
MaxCalls == 2        \* adapter calls dispatched in one behaviour
MaxLoads == 2        \* image loads (uploads, template selections) started
MaxTexts == 2        \* overlays the store may hold before add is disabled
MaxClock == 1        \* the clock (Date.now()) takes the values 0..MaxClock

\* ---------------------------------------------------------------- values
\* JavaScript's null.
null == [null |-> TRUE]

\* LoadingState (src/types.ts).
IDLE == "IDLE"
GENERATING_CAPTIONS == "GENERATING_CAPTIONS"
EDITING_IMAGE == "EDITING_IMAGE"
ANALYZING == "ANALYZING"
LoadingState == {IDLE, GENERATING_CAPTIONS, EDITING_IMAGE, ANALYZING}

\* The messages the handlers put in the error slot.
ErrLoadImage == [message |-> "Failed to load image"]
ErrLoadTemplate == [message |-> "Failed to load template"]
ErrCaptions == [message |-> "Failed to generate captions. Try again."]
ErrEdit == [message |-> "Failed to edit image. The model might be busy."]
ErrAnalysis == [message |-> "Analysis failed."]

\* A data URL `data:<type>;base64,<data>` is the pair of its type and its
\* payload; a payload is the source it came from and the AI edits applied to
\* it, as the sequence of the calls that made them (the service generates a
\* new image on every call).
DataUrl(type, data) == [type |-> type, data |-> data]
Payload(src, edits) == [src |-> src, edits |-> edits]

\* The MIME types an image payload may be encoded in.
ImageTypes == {"image/jpeg", "image/png"}

\* The files the user may pick in the file input.
Files == {[type |-> "image/png", data |-> Payload("upload", <<>>)]}

\* The template urls of the TemplateSelector.
TemplateUrls == {"template"}

\* What the server may answer to fetch(url): the template (a success response)
\* or an error page (a non-success response; fetch resolves all the same).
Responses(url) ==
  { [ok |-> TRUE, type |-> "image/jpeg", data |-> Payload(url, <<>>)],
    [ok |-> FALSE, type |-> "text/html", data |-> Payload("errorpage", <<>>)] }

\* What generateMagicCaptions may return: zero or more captions.
CaptionResults == { <<>>, <<[text |-> "LOL", category |-> "Funny"]>> }

\* What analyzeMemeContext may return.
AnalysisResults == {"analysis"}

\* The texts typed in the manual caption input.
ManualTexts == {"OK"}

\* The values typed in the edit prompt input, as sequences of characters.
PromptInputs == { <<>>, <<" ">>, <<" ", "x">> }

\* ---------------------------------------------------------------- state
VARIABLES
  currentImage,     \* null or the data URL of the current image
  currentMimeType,  \* string
  imageLoad,        \* the load the current image came from (-1: none)
  texts,            \* sequence of TextOverlay
  captions,         \* sequence of GeneratedCaption
  loadingState,     \* LoadingState
  analysisText,     \* string
  showAnalysis,     \* boolean
  editPrompt,       \* sequence of characters
  errorMsg,         \* null or a message
  now,              \* Date.now()
  calls,            \* adapter calls in flight (pending promises)
  loads,            \* image loads in flight, each at its await
  nextCall,         \* number of adapter calls dispatched so far
  nextLoad,         \* number of image loads started so far
  lastEvent         \* how the last step ended: "return" (a handler returned at
                    \* its precondition), "resolve" (the code after an await
                    \* that resolved ran), "reject" (the code after an await
                    \* that rejected ran), "other" (any other step)

vars == <<currentImage, currentMimeType, imageLoad, texts, captions, loadingState,
          analysisText, showAnalysis, editPrompt, errorMsg, now, calls, loads,
          nextCall, nextLoad, lastEvent>>

imageVars == <<currentImage, currentMimeType, imageLoad>>
analysisVars == <<analysisText, showAnalysis>>
flightVars == <<calls, loads, nextCall, nextLoad>>

\* useState initial values.
Init ==
  /\ currentImage = null
  /\ currentMimeType = "image/jpeg"
  /\ imageLoad = -1
  /\ texts = <<>>
  /\ captions = <<>>
  /\ loadingState = IDLE
  /\ analysisText = ""
  /\ showAnalysis = FALSE
  /\ editPrompt = <<>>
  /\ errorMsg = null
  /\ now = 0
  /\ calls = {}
  /\ loads = {}
  /\ nextCall = 0
  /\ nextLoad = 0
  /\ lastEvent = "other"

\* ---------------------------------------------------------------- helpers
IsSpace(c) == c = " "

\* Trim as a slip would have it: the prompt is tested as typed.
TrimNothing(s) == s

RECURSIVE TrimStart(_)
TrimStart(s) ==
  IF s /= <<>> /\ IsSpace(Head(s)) THEN TrimStart(Tail(s)) ELSE s

RECURSIVE TrimEnd(_)
TrimEnd(s) ==
  IF s /= <<>> /\ IsSpace(s[Len(s)]) THEN TrimEnd(SubSeq(s, 1, Len(s) - 1)) ELSE s

\* String.prototype.trim
Trim(s) == TrimEnd(TrimStart(s))

\* FilterOut as a removal of the first match only (a splice at indexOf).
RECURSIVE FilterOutFirst(_, _)
FilterOutFirst(ts, id) ==
  IF ts = <<>> THEN <<>>
  ELSE IF Head(ts).id /= id THEN <<Head(ts)>> \o FilterOutFirst(Tail(ts), id)
       ELSE Tail(ts)

\* Array.prototype.filter / map over the overlay list.
RECURSIVE FilterOut(_, _)
FilterOut(ts, id) ==
  IF ts = <<>> THEN <<>>
  ELSE IF Head(ts).id /= id THEN <<Head(ts)>> \o FilterOut(Tail(ts), id)
       ELSE FilterOut(Tail(ts), id)

MapPosition(ts, id, x, y) ==
  [i \in 1..Len(ts) |-> IF ts[i].id = id THEN [ts[i] EXCEPT !.x = x, !.y = y] ELSE ts[i]]

\* An adapter call in flight: the arguments it was dispatched with, and the
\* load whose image was current then.
Call(op, prompt) ==
  [id |-> nextCall, op |-> op, image |-> currentImage, mimeType |-> currentMimeType,
   prompt |-> prompt, load |-> imageLoad]

\* ---------------------------------------------------------------- image loads
\* handleFileChange up to `await fileToGenerativePart(file)` (without a chosen
\* file the handler does nothing: a stuttering step).
FileChangeStart(file) ==
  /\ nextLoad < MaxLoads
  /\ loads' = loads \cup {[id |-> nextLoad, kind |-> "file", stage |-> "read", url |-> "", blob |-> file]}
  /\ nextLoad' = nextLoad + 1
  /\ lastEvent' = "other"
  /\ UNCHANGED <<imageVars, texts, captions, loadingState, analysisVars, editPrompt,
                 errorMsg, now, calls, nextCall>>

\* handleFileChange after the await resolved.
FileReadResolve(l) ==
  /\ l.kind = "file" /\ l.stage = "read"
  /\ currentImage' = DataUrl(l.blob.type, l.blob.data)
  /\ currentMimeType' = l.blob.type
  /\ imageLoad' = l.id
  /\ captions' = <<>>
  /\ texts' = <<>>
  /\ errorMsg' = null
  /\ loads' = loads \ {l}
  /\ lastEvent' = "resolve"
  /\ UNCHANGED <<loadingState, analysisVars, editPrompt, now, calls, nextCall, nextLoad>>

\* handleFileChange after the await rejected.
FileReadReject(l) ==
  /\ l.kind = "file" /\ l.stage = "read"
  /\ errorMsg' = ErrLoadImage
  /\ loads' = loads \ {l}
  /\ lastEvent' = "reject"
  /\ UNCHANGED <<imageVars, texts, captions, loadingState, analysisVars, editPrompt,
                 now, calls, nextCall, nextLoad>>

\* handleSelectTemplate up to `await fetch(url)`.
SelectTemplateStart(url) ==
  /\ nextLoad < MaxLoads
  /\ loads' = loads \cup {[id |-> nextLoad, kind |-> "template", stage |-> "fetch", url |-> url, blob |-> null]}
  /\ nextLoad' = nextLoad + 1
  /\ lastEvent' = "other"
  /\ UNCHANGED <<imageVars, texts, captions, loadingState, analysisVars, editPrompt,
                 errorMsg, now, calls, nextCall>>

\* fetch resolved (with a success or a non-success response): on to
\* `await response.blob()`.
FetchResolve(l, response) ==
  /\ l.kind = "template" /\ l.stage = "fetch"
  /\ loads' = (loads \ {l}) \cup {[l EXCEPT !.stage = "blob", !.blob = response]}
  /\ lastEvent' = "resolve"
  /\ UNCHANGED <<imageVars, texts, captions, loadingState, analysisVars, editPrompt,
                 errorMsg, now, calls, nextCall, nextLoad>>

\* fetch or response.blob() rejected: the catch block.
TemplateReject(l) ==
  /\ l.kind = "template" /\ l.stage \in {"fetch", "blob"}
  /\ errorMsg' = ErrLoadTemplate
  /\ loads' = loads \ {l}
  /\ lastEvent' = "reject"
  /\ UNCHANGED <<imageVars, texts, captions, loadingState, analysisVars, editPrompt,
                 now, calls, nextCall, nextLoad>>

\* response.blob() resolved: the reader is started and the rest of the try
\* block runs, before the reader has read anything.
BlobResolve(l) ==
  /\ l.kind = "template" /\ l.stage = "blob"
  /\ captions' = <<>>
  /\ texts' = <<>>
  /\ errorMsg' = null
  /\ loads' = (loads \ {l}) \cup {[l EXCEPT !.stage = "reader"]}
  /\ lastEvent' = "resolve"
  /\ UNCHANGED <<imageVars, loadingState, analysisVars, editPrompt, now, calls,
                 nextCall, nextLoad>>

\* reader.onloadend: fired when the read ended, in success (reader.result is
\* the data URL) or in failure (reader.result is null).
ReaderLoadEnd(l, readOk) ==
  /\ l.kind = "template" /\ l.stage = "reader"
  /\ currentImage' = IF readOk THEN DataUrl(l.blob.type, l.blob.data) ELSE null
  /\ currentMimeType' = l.blob.type
  /\ imageLoad' = IF readOk THEN l.id ELSE -1
  /\ loads' = loads \ {l}
  /\ lastEvent' = IF readOk THEN "resolve" ELSE "reject"
  /\ UNCHANGED <<texts, captions, loadingState, analysisVars, editPrompt, errorMsg,
                 now, calls, nextCall, nextLoad>>

\* ---------------------------------------------------------------- AI operations
\* handleMagicCaption with no image: the early return.
MagicCaptionRejected ==
  /\ currentImage = null
  /\ lastEvent' = "return"
  /\ UNCHANGED <<imageVars, texts, captions, loadingState, analysisVars, editPrompt,
                 errorMsg, now, flightVars>>

\* handleMagicCaption up to `await generateMagicCaptions(...)`.
MagicCaptionStart ==
  /\ currentImage /= null
  /\ nextCall < MaxCalls
  /\ loadingState' = GENERATING_CAPTIONS
  /\ errorMsg' = null
  /\ calls' = calls \cup {Call("captions", <<>>)}
  /\ nextCall' = nextCall + 1
  /\ lastEvent' = "other"
  /\ UNCHANGED <<imageVars, texts, captions, analysisVars, editPrompt, now, loads,
                 nextLoad>>

\* MagicCaptionResolve clearing the error slot on success.
MagicCaptionResolveClearsError(c, result) ==
  /\ c.op = "captions"
  /\ captions' = result
  /\ errorMsg' = null
  /\ loadingState' = IDLE
  /\ calls' = calls \ {c}
  /\ lastEvent' = "resolve"
  /\ UNCHANGED <<imageVars, texts, analysisVars, editPrompt, now, loads, nextCall,
                 nextLoad>>

\* handleMagicCaption after the await resolved, and the finally block.
MagicCaptionResolve(c, result) ==
  /\ c.op = "captions"
  /\ captions' = result
  /\ loadingState' = IDLE
  /\ calls' = calls \ {c}
  /\ lastEvent' = "resolve"
  /\ UNCHANGED <<imageVars, texts, analysisVars, editPrompt, errorMsg, now, loads,
                 nextCall, nextLoad>>

\* MagicCaptionReject with the reset at the end of the try block instead of in
\* a finally block: the failure path skips it.
MagicCaptionRejectNoFinally(c) ==
  /\ c.op = "captions"
  /\ errorMsg' = ErrCaptions
  /\ calls' = calls \ {c}
  /\ lastEvent' = "reject"
  /\ UNCHANGED <<imageVars, texts, captions, loadingState, analysisVars, editPrompt, now,
                 loads, nextCall, nextLoad>>

\* MagicCaptionReject clearing the suggestions, as an image load does.
MagicCaptionRejectClearsCaptions(c) ==
  /\ c.op = "captions"
  /\ errorMsg' = ErrCaptions
  /\ captions' = <<>>
  /\ loadingState' = IDLE
  /\ calls' = calls \ {c}
  /\ lastEvent' = "reject"
  /\ UNCHANGED <<imageVars, texts, analysisVars, editPrompt, now, loads, nextCall,
                 nextLoad>>

\* handleMagicCaption after the await rejected, and the finally block.
MagicCaptionReject(c) ==
  /\ c.op = "captions"
  /\ errorMsg' = ErrCaptions
  /\ loadingState' = IDLE
  /\ calls' = calls \ {c}
  /\ lastEvent' = "reject"
  /\ UNCHANGED <<imageVars, texts, captions, analysisVars, editPrompt, now, loads,
                 nextCall, nextLoad>>

\* handleEditImage with no image or a blank prompt: the early return.
EditImageRejected ==
  /\ currentImage = null \/ Trim(editPrompt) = <<>>
  /\ lastEvent' = "return"
  /\ UNCHANGED <<imageVars, texts, captions, loadingState, analysisVars, editPrompt,
                 errorMsg, now, flightVars>>

\* handleEditImage up to `await editMemeImage(...)`.
EditImageStart ==
  /\ ~(currentImage = null \/ Trim(editPrompt) = <<>>)
  /\ nextCall < MaxCalls
  /\ loadingState' = EDITING_IMAGE
  /\ errorMsg' = null
  /\ calls' = calls \cup {Call("edit", editPrompt)}
  /\ nextCall' = nextCall + 1
  /\ lastEvent' = "other"
  /\ UNCHANGED <<imageVars, texts, captions, analysisVars, editPrompt, now, loads,
                 nextLoad>>

\* The data URL editMemeImage resolves with: the image it was given with one
\* more edit, in the encoding the service chose.
EditedImage(c, type) ==
  DataUrl(type, Payload(c.image.data.src, Append(c.image.data.edits, c.id)))

\* EditImageResolve clearing the overlays, as an image load does.
EditImageResolveClearsTexts(c, type) ==
  /\ c.op = "edit"
  /\ currentImage' = EditedImage(c, type)
  /\ editPrompt' = <<>>
  /\ texts' = <<>>
  /\ loadingState' = IDLE
  /\ calls' = calls \ {c}
  /\ lastEvent' = "resolve"
  /\ UNCHANGED <<currentMimeType, imageLoad, captions, analysisVars, errorMsg, now, loads,
                 nextCall, nextLoad>>

\* handleEditImage after the await resolved, and the finally block.
EditImageResolve(c, type) ==
  /\ c.op = "edit"
  /\ currentImage' = EditedImage(c, type)
  /\ editPrompt' = <<>>
  /\ loadingState' = IDLE
  /\ calls' = calls \ {c}
  /\ lastEvent' = "resolve"
  /\ UNCHANGED <<currentMimeType, imageLoad, texts, captions, analysisVars, errorMsg, now,
                 loads,
                 nextCall, nextLoad>>

\* handleEditImage after the await rejected, and the finally block.
EditImageReject(c) ==
  /\ c.op = "edit"
  /\ errorMsg' = ErrEdit
  /\ loadingState' = IDLE
  /\ calls' = calls \ {c}
  /\ lastEvent' = "reject"
  /\ UNCHANGED <<imageVars, texts, captions, analysisVars, editPrompt, now, loads,
                 nextCall, nextLoad>>

\* handleAnalyze with no image: the early return.
AnalyzeRejected ==
  /\ currentImage = null
  /\ lastEvent' = "return"
  /\ UNCHANGED <<imageVars, texts, captions, loadingState, analysisVars, editPrompt,
                 errorMsg, now, flightVars>>

\* handleAnalyze up to `await analyzeMemeContext(...)`.
AnalyzeStart ==
  /\ currentImage /= null
  /\ nextCall < MaxCalls
  /\ loadingState' = ANALYZING
  /\ errorMsg' = null
  /\ calls' = calls \cup {Call("analyze", <<>>)}
  /\ nextCall' = nextCall + 1
  /\ lastEvent' = "other"
  /\ UNCHANGED <<imageVars, texts, captions, analysisVars, editPrompt, now, loads,
                 nextLoad>>

\* handleAnalyze after the await resolved, and the finally block.
AnalyzeResolve(c, analysis) ==
  /\ c.op = "analyze"
  /\ analysisText' = analysis
  /\ showAnalysis' = TRUE
  /\ loadingState' = IDLE
  /\ calls' = calls \ {c}
  /\ lastEvent' = "resolve"
  /\ UNCHANGED <<imageVars, texts, captions, editPrompt, errorMsg, now, loads,
                 nextCall, nextLoad>>

\* handleAnalyze after the await rejected, and the finally block.
AnalyzeReject(c) ==
  /\ c.op = "analyze"
  /\ errorMsg' = ErrAnalysis
  /\ loadingState' = IDLE
  /\ calls' = calls \ {c}
  /\ lastEvent' = "reject"
  /\ UNCHANGED <<imageVars, texts, captions, analysisVars, editPrompt, now, loads,
                 nextCall, nextLoad>>

\* ---------------------------------------------------------------- overlays
\* NewText placing an overlay at the top whenever no overlay is at the top.
NewTextTopIfFree(text) ==
  [id |-> ToString(now), text |-> text, x |-> 50,
   y |-> IF \A i \in 1..Len(texts) : texts[i].y /= 10 THEN 10 ELSE 90,
   fontSize |-> 32, color |-> "#FFFFFF", isUppercase |-> TRUE]

\* The overlay addTextOverlay creates.
NewText(text) ==
  [id |-> ToString(now), text |-> text, x |-> 50,
   y |-> IF Len(texts) = 0 THEN 10 ELSE 90,
   fontSize |-> 32, color |-> "#FFFFFF", isUppercase |-> TRUE]

\* addTextOverlay, called with a suggestion's text or with the manual input.
AddTextOverlay(text) ==
  /\ Len(texts) < MaxTexts
  /\ texts' = Append(texts, NewText(text))
  /\ lastEvent' = "other"
  /\ UNCHANGED <<imageVars, captions, loadingState, analysisVars, editPrompt, errorMsg,
                 now, flightVars>>

\* updateTextPosition: no element of the component calls it (the drag handler
\* is a placeholder), so it is no disjunct of Next.
updateTextPosition(id, x, y) ==
  /\ texts' = MapPosition(texts, id, x, y)
  /\ lastEvent' = "other"
  /\ UNCHANGED <<imageVars, captions, loadingState, analysisVars, editPrompt, errorMsg,
                 now, flightVars>>

\* removeText, called by the remove button of an overlay with that overlay's id.
removeText(id) ==
  /\ texts' = FilterOut(texts, id)
  /\ lastEvent' = "other"
  /\ UNCHANGED <<imageVars, captions, loadingState, analysisVars, editPrompt, errorMsg,
                 now, flightVars>>

\* ---------------------------------------------------------------- the rest
\* onChange of the edit prompt input.
SetEditPrompt(p) ==
  /\ editPrompt' = p
  /\ lastEvent' = "other"
  /\ UNCHANGED <<imageVars, texts, captions, loadingState, analysisVars, errorMsg, now,
                 flightVars>>

\* onClose of the analysis dialog.
CloseAnalysis ==
  /\ showAnalysis' = FALSE
  /\ lastEvent' = "other"
  /\ UNCHANGED <<imageVars, texts, captions, loadingState, analysisText, editPrompt,
                 errorMsg, now, flightVars>>

\* A millisecond passes.
Tick ==
  /\ now < MaxClock
  /\ now' = now + 1
  /\ lastEvent' = "other"
  /\ UNCHANGED <<imageVars, texts, captions, loadingState, analysisVars, editPrompt,
                 errorMsg, flightVars>>

\* The texts addTextOverlay may be called with.
AddInputs == ManualTexts \cup {captions[i].text : i \in 1..Len(captions)}

Next ==
  \/ \E file \in Files : FileChangeStart(file)
  \/ \E l \in loads : FileReadResolve(l)
  \/ \E l \in loads : FileReadReject(l)
  \/ \E url \in TemplateUrls : SelectTemplateStart(url)
  \/ \E l \in loads : \E response \in Responses(l.url) : FetchResolve(l, response)
  \/ \E l \in loads : TemplateReject(l)
  \/ \E l \in loads : BlobResolve(l)
  \/ \E l \in loads : \E readOk \in BOOLEAN : ReaderLoadEnd(l, readOk)
  \/ MagicCaptionRejected
  \/ MagicCaptionStart
  \/ \E c \in calls : \E result \in CaptionResults : MagicCaptionResolve(c, result)
  \/ \E c \in calls : MagicCaptionReject(c)
  \/ EditImageRejected
  \/ EditImageStart
  \/ \E c \in calls : \E type \in ImageTypes : EditImageResolve(c, type)
  \/ \E c \in calls : EditImageReject(c)
  \/ AnalyzeRejected
  \/ AnalyzeStart
  \/ \E c \in calls : \E analysis \in AnalysisResults : AnalyzeResolve(c, analysis)
  \/ \E c \in calls : AnalyzeReject(c)
  \/ \E text \in AddInputs : AddTextOverlay(text)
  \/ \E i \in 1..Len(texts) : removeText(texts[i].id)
  \/ \E p \in PromptInputs : SetEditPrompt(p)
  \/ CloseAnalysis
  \/ Tick

Spec == Init /\ [][Next]_vars

\* ---------------------------------------------------------------- the store alone
\* The overlay store driven through its three functions alone, with any id
\* and any coordinates: addTextOverlay, updateTextPosition, removeText.

\* The texts addTextOverlay is called with.
StoreTexts == {"LOL", "OK"}

\* The ids updateTextPosition and removeText are called with: those the clock
\* can have produced, in the store or not.
StoreIds == {ToString(t) : t \in 0..MaxClock}

\* The coordinates updateTextPosition is called with.
PositionInputs == { <<30, 70>>, <<-10, 120>> }

StoreNext ==
  \/ \E text \in StoreTexts : AddTextOverlay(text)
  \/ \E id \in StoreIds : \E p \in PositionInputs : updateTextPosition(id, p[1], p[2])
  \/ \E id \in StoreIds : removeText(id)
  \/ Tick

StoreSpec == Init /\ [][StoreNext]_vars

\* ---------------------------------------------------------------- properties
\* Steps, told by what they do to the calls and loads in flight.
Completes(c) == c \in calls /\ c \notin calls'
Succeeds(c) == Completes(c) /\ lastEvent' = "resolve"
Fails(c) == Completes(c) /\ lastEvent' = "reject"
Dispatched == calls' \ calls

\* A prompt that is empty or all white space.
IsBlank(s) == \A i \in 1..Len(s) : s[i] = " "

\* C1: at most one of the adapter calls dispatched by handleMagicCaption,
\* handleEditImage and handleAnalyze is pending in every reachable state.
C1_AtMostOnePending == Cardinality(calls) <= 1

\* C2: a step that completes an adapter call, on the success path or on the
\* failure path, ends with loadingState IDLE.
C2_IdleAfterCompletion ==
  [][\A c \in calls : Completes(c) => loadingState' = IDLE]_vars

\* C2 witness: the captions call has just failed while another call is still
\* pending, and loadingState is IDLE.
C2_Witness ==
  /\ lastEvent = "reject"
  /\ errorMsg = ErrCaptions
  /\ calls /= {}
  /\ loadingState = IDLE

\* C3: no step changes loadingState from one busy value to a different busy
\* value; a step that leaves a busy value goes to IDLE.
C3_StarTopology ==
  [][(loadingState /= IDLE /\ loadingState' /= loadingState) => loadingState' = IDLE]_vars

\* C4: the ids of the overlays in the store are pairwise distinct in every
\* reachable state.
C4_DistinctIds ==
  \A i, j \in 1..Len(texts) : i /= j => texts[i].id /= texts[j].id

\* The step in which a loaded image becomes the current image: the code after
\* the file read, or the reader's onloadend with a result.
LoadApplied ==
  \E l \in loads :
    /\ l \notin loads'
    /\ lastEvent' = "resolve"
    /\ (l.kind = "file" \/ l.stage = "reader")

\* C5: in the state in which a newly loaded image (upload or template) becomes
\* the current image, the overlay list is empty.
C5_LoadYieldsEmptyStore == [][LoadApplied => texts' = <<>>]_vars

\* C6: a successful edit replaces the current image by the edit result and
\* leaves the overlay list as it was.
C6_EditPreservesOverlays ==
  [][\A c \in calls : (c.op = "edit" /\ Succeeds(c)) =>
        /\ texts' = texts
        /\ currentImage' /= currentImage
        /\ currentImage' \in {EditedImage(c, type) : type \in ImageTypes}]_vars

\* C6 witness: the one call made was an edit, it has just succeeded, and the
\* store holds an overlay.
C6_Witness ==
  /\ lastEvent = "resolve"
  /\ nextCall = 1 /\ calls = {} /\ loads = {}
  /\ currentImage /= null /\ currentImage.data.edits /= <<>>
  /\ texts /= <<>>

\* C7: in every reachable state with an image loaded, currentMimeType is the
\* type of the current content.
C7_MimeTypeOfContent ==
  currentImage /= null => currentMimeType = currentImage.type

\* A step of a template load that fails: the catch block (fetch or blob()
\* rejected), a read that failed, or a step of a load whose response was not a
\* success.
TemplateLoadFails ==
  \E l \in loads :
    /\ l.kind = "template"
    /\ l \notin loads'
    /\ \/ lastEvent' = "reject"
       \/ IF l.stage \in {"blob", "reader"} THEN ~l.blob.ok ELSE FALSE

\* C8: a template load that fails leaves the current image, the mimeType, the
\* overlay list and the suggestion list as they were.
C8_FailedTemplateKeepsState ==
  [][TemplateLoadFails => UNCHANGED <<currentImage, currentMimeType, texts, captions>>]_vars

\* C9: when the captions call fails, the suggestion list is unchanged, the
\* error slot holds the captioning-failure message and loadingState is IDLE.
C9_CaptionFailure ==
  [][\A c \in calls : (c.op = "captions" /\ Fails(c)) =>
        /\ captions' = captions
        /\ errorMsg' = ErrCaptions
        /\ loadingState' = IDLE]_vars

\* C9 witness: a captions call has just failed and the suggestions of an
\* earlier success are still there.
C9_Witness ==
  /\ lastEvent = "reject"
  /\ errorMsg = ErrCaptions
  /\ captions /= <<>>
  /\ loadingState = IDLE

\* C10: handleEditImage called with no image or with a blank prompt dispatches
\* no call and changes nothing: an early return leaves the calls, loadingState,
\* the error slot, the image and the prompt as they were, and an edit call is
\* dispatched only with an image and a prompt that is not blank.
C10_EditRejected ==
  [][/\ lastEvent' = "return" =>
          UNCHANGED <<calls, nextCall, loadingState, errorMsg, currentImage,
                      currentMimeType, editPrompt>>
     /\ \A c \in Dispatched :
          c.op = "edit" => (currentImage /= null /\ ~IsBlank(editPrompt))]_vars

\* C10 witness: handleEditImage has just returned early with an image loaded
\* and a prompt of white space.
C10_Witness ==
  /\ lastEvent = "return"
  /\ currentImage /= null
  /\ editPrompt = <<" ">>
  /\ calls = {}
  /\ loadingState = IDLE

\* The overlays of ts whose id is id.
Matching(ts, id) == {i \in 1..Len(ts) : ts[i].id = id}

\* C11: an add on an empty store creates the overlay at (50, 10), an add on a
\* store that is not empty creates it at (50, 90), whatever adds and removes
\* came before.
C11_DefaultPlacement ==
  [][Len(texts') = Len(texts) + 1 =>
        /\ SubSeq(texts', 1, Len(texts)) = texts
        /\ texts'[Len(texts')].x = 50
        /\ texts'[Len(texts')].y = (IF texts = <<>> THEN 10 ELSE 90)]_vars

\* C11 witness: after add, add, remove of the first and a third add, both
\* overlays of the store are at the bottom.
C11_Witness ==
  /\ Len(texts) = 2
  /\ texts[1].x = 50 /\ texts[1].y = 90
  /\ texts[2].x = 50 /\ texts[2].y = 90

\* C12: every overlay of the store has x and y within 0..100 in every
\* reachable state.
C12_PositionsInRange ==
  \A i \in 1..Len(texts) : texts[i].x \in 0..100 /\ texts[i].y \in 0..100

\* C13: updateTextPosition with an id that matches no overlay leaves the list
\* as it is; with a matching id it changes x and y of one overlay, and nothing
\* else.
C13_UpdateOneOverlay ==
  \A id \in StoreIds : \A p \in PositionInputs :
    LET r == MapPosition(texts, id, p[1], p[2]) IN
      /\ Matching(texts, id) = {} => r = texts
      /\ Len(r) = Len(texts)
      /\ Cardinality({i \in 1..Len(texts) : r[i] /= texts[i]}) <= 1
      /\ \A i \in 1..Len(texts) :
           r[i] \in {texts[i], [texts[i] EXCEPT !.x = p[1], !.y = p[2]]}

\* C14: removing an id deletes the overlays with that id and keeps the others
\* in their order, and removing it a second time changes nothing.
C14_RemoveIdempotent ==
  \A id \in StoreIds :
    LET Keep(t) == t.id /= id
        r == FilterOut(texts, id)
    IN /\ r = SelectSeq(texts, Keep)
       /\ FilterOut(r, id) = r

\* C14 witness: of two overlays added, the first was removed and the second
\* is left as it was created.
C14_Witness ==
  /\ Len(texts) = 1
  /\ texts[1].text = "OK" /\ texts[1].x = 50 /\ texts[1].y = 90

\* The step in which the current image is replaced: a loaded image is applied
\* or an edit succeeds.
ImageReplaced ==
  LoadApplied \/ \E c \in calls : c.op = "edit" /\ Succeeds(c)

\* C15: every successful load or replace of the image clears the analysis
\* text, the show-analysis flag and the error slot.
C15_ReplaceClearsTransients ==
  [][ImageReplaced =>
        /\ analysisText' = ""
        /\ showAnalysis' = FALSE
        /\ errorMsg' = null]_vars

\* The messages an operation's failure puts in the error slot.
OperationErrors == {ErrCaptions, ErrEdit, ErrAnalysis}

\* The step of an image load that clears the error slot: the code after the
\* file read, or after the template's blob() resolved.
LoadClearsError ==
  \E l \in loads :
    /\ l \notin loads'
    /\ lastEvent' = "resolve"
    /\ (l.kind = "file" \/ l.stage = "blob")

\* C16, as claimed: the error slot is cleared when an operation is dispatched,
\* an operation's success leaves it as it is, and an operation's error stays
\* set (with that message or a later failure's) in every step that dispatches
\* no operation.
C16_ErrorUntilNextAttempt ==
  [][/\ Dispatched /= {} => errorMsg' = null
     /\ \A c \in calls : Succeeds(c) => errorMsg' = errorMsg
     /\ (errorMsg \in OperationErrors /\ Dispatched = {}) => errorMsg' /= null]_vars

\* C16, amended: the error slot is cleared when an operation is dispatched,
\* an operation's success leaves it as it is, and an operation's error stays
\* set (with that message or a later failure's) until an operation is
\* dispatched or an image load succeeds.
C16_ErrorUntilAttemptOrLoad ==
  [][/\ Dispatched /= {} => errorMsg' = null
     /\ \A c \in calls : Succeeds(c) => errorMsg' = errorMsg
     /\ (errorMsg \in OperationErrors /\ errorMsg' = null) =>
          (Dispatched /= {} \/ LoadClearsError)]_vars

\* C16 witness: of two overlapping calls on an uploaded image the captions
\* call failed and the other has just succeeded; the error is still set.
C16_Witness ==
  /\ lastEvent = "resolve"
  /\ errorMsg = ErrCaptions
  /\ nextCall = 2 /\ calls = {}
  /\ nextLoad = 1 /\ loads = {}

\* The busy value an entry point sets.
BusyValue(op) ==
  CASE op = "captions" -> GENERATING_CAPTIONS
    [] op = "edit" -> EDITING_IMAGE
    [] op = "analyze" -> ANALYZING

\* C17: while an adapter call is pending, loadingState is the busy value of
\* the pending call that was started last.
C17_BusyOfLatestPending ==
  calls /= {} =>
    \E c \in calls :
      /\ \A d \in calls : d.id <= c.id
      /\ loadingState = BusyValue(c.op)

\* The image was swapped since call c was dispatched: the image of another
\* load, with another content, is current.
SwappedSince(c) ==
  /\ c.load /= imageLoad
  /\ currentImage /= null
  /\ currentImage.data.src /= c.image.data.src

\* C18: suggestions are anchored to the current image: a captions result that
\* arrives after the image was swapped during the call does not fill the
\* suggestion list.
C18_SuggestionsOfCurrentImage ==
  [][\A c \in calls :
        (c.op = "captions" /\ Succeeds(c) /\ SwappedSince(c)) => captions' = <<>>]_vars

\* C19: an edit result replaces only the image it was computed from: when
\* another image was loaded while the call was pending, the result does not
\* overwrite it.
C19_EditOfCurrentImage ==
  [][\A c \in calls :
        (c.op = "edit" /\ Succeeds(c) /\ SwappedSince(c)) =>
          UNCHANGED <<currentImage, currentMimeType>>]_vars

\* C20: image loads take effect in request order: a load that completes
\* after a load requested later was applied does not replace that load's
\* image and mimeType.
C20_LoadsInRequestOrder ==
  [][\A l \in loads :
        (/\ l \notin loads'
         /\ lastEvent' = "resolve"
         /\ (l.kind = "file" \/ l.stage = "reader")
         /\ imageLoad > l.id)
          => UNCHANGED <<currentImage, currentMimeType>>]_vars

====
